---------------------------- MODULE Spec2Model ----------------------------
(***************************************************************************)
(* A model of src/data_utils.py (PITS-MFA):                                *)
(*   - DistributedBucketSampler: construction (_bisect, _create_buckets),  *)
(*     __iter__ and __len__, for the samplers of one process group (one    *)
(*     sampler per rank, all constructed with the same arguments);         *)
(*   - TextAudioLoader.get_audio_text_pair: the reconciliation of the      *)
(*     spectrogram / waveform with the duration annotation.                *)
(* Python lists are sequences (1-indexed here); the values kept in them    *)
(* (example indices, bucket-local indices, bucket numbers returned by      *)
(* _bisect) are the 0-based numbers of the code.                           *)
(***************************************************************************)
EXTENDS Integers, Sequences, FiniteSets, Bags, TLC

VARIABLES
  lengths,                \* dataset.lengths (self.lengths)
  batch_size,             \* self.batch_size
  boundaries,             \* the boundaries list object (self.boundaries is the caller's list)
  boundaries_arg,         \* its contents when the constructor was called
  num_replicas,           \* self.num_replicas
  shuffle,                \* self.shuffle
  constructed,            \* whether __init__ has returned
  buckets,                \* self.buckets
  num_samples_per_bucket, \* self.num_samples_per_bucket
  total_size,             \* self.total_size
  num_samples,            \* self.num_samples
  epoch,                  \* self.epoch of the sampler of each rank
  batches,                \* self.batches of the sampler of each rank
  iter_epoch,             \* the epoch the last __iter__ of each rank seeded its generator with (-1: no call yet)
  iter_result,            \* how the last __iter__ of each rank ended: "none", "ok", "AssertionError"
  seen,                   \* history: per rank and epoch, the first batch list __iter__ returned there
  item,                   \* the inputs of the last get_audio_text_pair call
  pair,                   \* what that call returned, or the error it raised
  cbatch,                 \* the batch TextAudioCollate.__call__ is given
  collated,               \* what it returned
  text_hparams,           \* min_text_len, max_text_len, hop_length of the TextAudioLoader
  manifest,               \* self.audiopaths_sid_text when _filter is entered, with each wav file's size
  catalog                 \* self.audiopaths_sid_text and self.lengths as _filter leaves them

sampler_vars == <<lengths, batch_size, boundaries, boundaries_arg, num_replicas, shuffle,
                  constructed, buckets, num_samples_per_bucket, total_size, num_samples,
                  epoch, batches, iter_epoch, iter_result, seen>>
loader_vars == <<item, pair>>
collate_vars == <<cbatch, collated>>
catalog_vars == <<text_hparams, manifest, catalog>>
vars == <<sampler_vars, loader_vars, collate_vars, catalog_vars>>

-----------------------------------------------------------------------------
(* Bounds of the model *)

\* the largest number of examples in the catalog of the process group
MaxExamples == 3
\* the largest boundary value of the construction model
MaxLength == 3
\* the largest number of examples in the catalog of the construction model
MaxBuildExamples == 2
\* the largest number of frames of a spectrogram
MaxFrames == 3
\* the largest number of entries of a duration annotation
MaxDurations == 2
\* the largest number of examples in a batch given to the collator
MaxCollate == 2
\* the largest number of characters of a manifest row's phoneme string
MaxChars == 3

Epochs == {0, 1}
BatchSizes == {1, 2}
WorldSizes == {1, 2, 3}

\* all lists of at most n values of S
ListsUpTo(S, n) == UNION {[1..k -> S] : k \in 0..n}

\* strictly ascending lists of at least two values of 0..m
AscendingLists(m) ==
  {b \in ListsUpTo(0..m, m + 1) :
     /\ Len(b) >= 2
     /\ \A k \in 1..(Len(b) - 1) : b[k] < b[k + 1]}

-----------------------------------------------------------------------------
(* Python list helpers *)

\* s[:k] for 0 <= k
Take(s, k) == SubSeq(s, 1, IF k < Len(s) THEN k ELSE Len(s))

\* list.pop(i), the list that remains (0-based i)
Pop(s, i) == SubSeq(s, 1, i) \o SubSeq(s, i + 2, Len(s))

\* s * k
RECURSIVE Repeat(_, _)
Repeat(s, k) == IF k <= 0 THEN <<>> ELSE s \o Repeat(s, k - 1)

\* s[start::step]
Stride(s, start, step) ==
  IF start >= Len(s) THEN <<>>
  ELSE [j \in 1..(((Len(s) - start - 1) \div step) + 1) |-> s[start + (j - 1) * step + 1]]

\* list(range(n))
Range(n) == [j \in 1..n |-> j - 1]

RECURSIVE SumSeq(_)
SumSeq(s) == IF s = <<>> THEN 0 ELSE s[1] + SumSeq(Tail(s))

\* the elements of a list, with their multiplicities
RECURSIVE BagOf(_)
BagOf(s) == IF s = <<>> THEN EmptyBag ELSE SetToBag({s[1]}) (+) BagOf(Tail(s))

RECURSIVE Flatten(_)
Flatten(ss) == IF ss = <<>> THEN <<>> ELSE ss[1] \o Flatten(Tail(ss))

Elems(s) == {s[k] : k \in 1..Len(s)}

-----------------------------------------------------------------------------
(* torch.Generator: a deterministic generator. Its state is a number;      *)
(* manual_seed sets it from the seed alone, and every draw advances it.    *)
(* torch.randperm(n, generator=g) is a permutation of 0..n-1 decided by    *)
(* the state of g, which it advances.                                      *)

manual_seed(s) == s % 31

NextGen(g) == (g * 3 + 1) % 31

\* the list p with x inserted so that x is at 0-based position j
InsertAt(p, j, x) == SubSeq(p, 1, j) \o <<x>> \o SubSeq(p, j + 1, Len(p))

\* n independent draws from 0..n-1 in place of a permutation
RECURSIVE randperm_with_repeats(_, _)
randperm_with_repeats(n, g) ==
  IF n = 0 THEN [perm |-> <<>>, g |-> g]
  ELSE LET r == randperm_with_repeats(n - 1, g)
           g1 == NextGen(r.g)
       IN [perm |-> [k \in 1..n |-> IF k < n THEN (r.perm[k] + g1) % n ELSE g1 % n], g |-> g1]

\* [perm |-> a permutation of 0..n-1, g |-> the state of the generator after it]
RECURSIVE randperm(_, _)
randperm(n, g) ==
  IF n = 0 THEN [perm |-> <<>>, g |-> g]
  ELSE LET r == randperm(n - 1, g)
           g1 == NextGen(r.g)
       IN [perm |-> InsertAt(r.perm, g1 % n, n - 1), g |-> g1]

-----------------------------------------------------------------------------
(* DistributedBucketSampler: construction *)

\* _bisect with the intervals closed at the wrong end
RECURSIVE bisect_wrong_edge(_, _, _, _)
bisect_wrong_edge(b, x, lo, hi) ==
  IF hi > lo
  THEN LET mid == (hi + lo) \div 2
       IN IF b[mid + 1] <= x /\ x < b[mid + 2] THEN mid
          ELSE IF x < b[mid + 1] THEN bisect_wrong_edge(b, x, lo, mid)
          ELSE bisect_wrong_edge(b, x, mid + 1, hi)
  ELSE -1

\* _bisect(x, lo, hi) on the boundaries list b: the 0-based bucket of x, or -1
RECURSIVE bisect(_, _, _, _)
bisect(b, x, lo, hi) ==
  IF hi > lo
  THEN LET mid == (hi + lo) \div 2
       IN IF b[mid + 1] < x /\ x <= b[mid + 2] THEN mid
          ELSE IF x <= b[mid + 1] THEN bisect(b, x, lo, mid)
          ELSE bisect(b, x, mid + 1, hi)
  ELSE -1

\* _bisect(x) with its defaults lo=0, hi=None
bisect_default(b, x) == bisect(b, x, 0, Len(b) - 1)

\* the first loop of _create_buckets: examples 0..n-1 appended to their buckets
RECURSIVE assign_buckets(_, _, _)
assign_buckets(ls, b, n) ==
  IF n = 0 THEN [k \in 1..(Len(b) - 1) |-> <<>>]
  ELSE LET bk == assign_buckets(ls, b, n - 1)
           idx_bucket == bisect_default(b, ls[n])
       IN IF idx_bucket # -1
          THEN [bk EXCEPT ![idx_bucket + 1] = Append(@, n - 1)]
          ELSE bk

\* the second loop with the boundaries left as they were
RECURSIVE prune_buckets_only(_, _, _)
prune_buckets_only(bk, b, i) ==
  IF i < 0 THEN [buckets |-> bk, boundaries |-> b]
  ELSE IF Len(bk[i + 1]) = 0
       THEN prune_buckets_only(Pop(bk, i), b, i - 1)
       ELSE prune_buckets_only(bk, b, i - 1)

\* the second loop of _create_buckets, for i, i-1, .., 0: empty buckets are popped,
\* each with the boundary at i+1
RECURSIVE prune_buckets(_, _, _)
prune_buckets(bk, b, i) ==
  IF i < 0 THEN [buckets |-> bk, boundaries |-> b]
  ELSE IF Len(bk[i + 1]) = 0
       THEN prune_buckets(Pop(bk, i), Pop(b, i + 1), i - 1)
       ELSE prune_buckets(bk, b, i - 1)

\* the padded size with the remainder itself added
padded_no_rounding(len_bucket, total_batch_size) == len_bucket + (len_bucket % total_batch_size)

\* the padded size of a bucket of len_bucket examples
padded_size(len_bucket, total_batch_size) ==
  LET rem == (total_batch_size - (len_bucket % total_batch_size)) % total_batch_size
  IN len_bucket + rem

\* _create_buckets: the buckets, the boundaries list as it leaves it, and the padded sizes
create_buckets(ls, b, replicas, bsize) ==
  LET assigned == assign_buckets(ls, b, Len(ls))
      pruned == prune_buckets(assigned, b, Len(assigned) - 1)
  IN [buckets |-> pruned.buckets,
      boundaries |-> pruned.boundaries,
      num_samples_per_bucket |->
        [i \in 1..Len(pruned.buckets) |->
           padded_size(Len(pruned.buckets[i]), replicas * bsize)]]

-----------------------------------------------------------------------------
(* DistributedBucketSampler.__iter__ *)

\* the per-bucket index lists: a permutation per bucket drawn in bucket order from g
\* when shuffling, else range(len(bucket)); with the generator's state afterwards
RECURSIVE bucket_indices(_, _, _)
bucket_indices(bks, sh, g) ==
  IF bks = <<>> THEN [indices |-> <<>>, g |-> g]
  ELSE LET n == Len(bks)
           before == bucket_indices(SubSeq(bks, 1, n - 1), sh, g)
       IN IF sh
          THEN LET r == randperm(Len(bks[n]), before.g)
               IN [indices |-> Append(before.indices, r.perm), g |-> r.g]
          ELSE [indices |-> Append(before.indices, Range(Len(bks[n]))), g |-> before.g]

\* the extension without its partial last copy
extend_ids_no_tail(ids_bucket, len_bucket, num_samples_bucket) ==
  LET rem == num_samples_bucket - len_bucket
  IN ids_bucket \o Repeat(ids_bucket, rem \div len_bucket)

\* "add extra samples to make it evenly divisible"
extend_ids(ids_bucket, len_bucket, num_samples_bucket) ==
  LET rem == num_samples_bucket - len_bucket
  IN ids_bucket \o Repeat(ids_bucket, rem \div len_bucket)
                \o Take(ids_bucket, rem % len_bucket)

\* the subsample taken from offset 0 on every rank
subsample_ignoring_rank(ids_bucket, rank, replicas) == Stride(ids_bucket, 0, replicas)

\* "subsample": ids_bucket[self.rank::self.num_replicas]
subsample(ids_bucket, rank, replicas) == Stride(ids_bucket, rank, replicas)

\* the batches sliced one index short
make_batches_off_by_one(bucket, ids_bucket, bsize) ==
  [j \in 1..(Len(ids_bucket) \div bsize) |->
     [k \in 1..(bsize - 1) |-> bucket[ids_bucket[(j - 1) * bsize + k] + 1]]]

\* "batching": the batches of one bucket
make_batches(bucket, ids_bucket, bsize) ==
  [j \in 1..(Len(ids_bucket) \div bsize) |->
     [k \in 1..bsize |-> bucket[ids_bucket[(j - 1) * bsize + k] + 1]]]

\* the batches of buckets 1..n, in bucket order (the loop over range(len(self.buckets)))
RECURSIVE bucket_batches(_, _, _, _, _, _)
bucket_batches(bks, nspb, indices, rank, replicas, bsize) ==
  IF bks = <<>> THEN <<>>
  ELSE LET n == Len(bks)
           ids_bucket == subsample(extend_ids(indices[n], Len(bks[n]), nspb[n]), rank, replicas)
       IN bucket_batches(SubSeq(bks, 1, n - 1), SubSeq(nspb, 1, n - 1),
                         SubSeq(indices, 1, n - 1), rank, replicas, bsize)
          \o make_batches(bks[n], ids_bucket, bsize)

\* a seed that differs from rank to rank
iter_seed_by_rank(r) == epoch[r] + r

\* a seed that also depends on what the sampler returned before
iter_seed_stale(r) == epoch[r] + Len(batches[r])

\* the seed of the generator of an __iter__ call of the sampler of rank r
iter_seed(r) == epoch[r]

\* the batch list __iter__ builds for the sampler of rank r (self.batches)
iter_batches(r) ==
  LET g0 == manual_seed(iter_seed(r))
      ind == bucket_indices(buckets, shuffle, g0)
      bs == bucket_batches(buckets, num_samples_per_bucket, ind.indices,
                           r, num_replicas, batch_size)
  IN IF shuffle
     THEN LET batch_ids == randperm(Len(bs), ind.g).perm
          IN [k \in 1..Len(bs) |-> bs[batch_ids[k] + 1]]
     ELSE bs

\* the length counted over all ranks
sampler_len_total == total_size \div batch_size

\* __len__
sampler_len == num_samples \div batch_size

-----------------------------------------------------------------------------
(* TextAudioLoader.get_audio_text_pair.  What get_audio, get_phonemes and  *)
(* get_duration_flag load (the spectrogram, the waveform, the token        *)
(* sequence, the durations) are the inputs of the call: a spectrogram is   *)
(* the list of its frames and a waveform the list of its samples, with     *)
(* frame / sample number k holding the value k, so that a zero is padding. *)

\* s[:k] of Python, k of either sign
SliceTo(s, k) ==
  IF k >= 0 THEN Take(s, k)
  ELSE Take(s, IF Len(s) + k > 0 THEN Len(s) + k ELSE 0)

\* torch.zeros of n entries
Zeros(n) == [k \in 1..n |-> 0]

\* pad[:, :len(x)] = x, for len(x) <= len(pad)
PadInto(pad, x) == [k \in 1..Len(pad) |-> IF k <= Len(x) THEN x[k] ELSE pad[k]]

Abs(x) == IF x < 0 THEN -x ELSE x

\* the tolerance of the first assertion, widened by one frame
alignment_ok_loose(frames, sumdur) == Abs(frames - sumdur) <= 2

\* assert abs(spec.shape[-1] - sumdur) < 2
alignment_ok(frames, sumdur) == Abs(frames - sumdur) < 2

\* the truncation taken only on the waveform
truncate_wav_only(spec, wav, sumdur, hop) ==
  [spec |-> spec, wav |-> SliceTo(wav, sumdur * hop)]

\* the truncation with the spectrogram cut one frame short
truncate_one_short(spec, wav, sumdur, hop) ==
  [spec |-> SliceTo(spec, sumdur - 1), wav |-> SliceTo(wav, sumdur * hop)]

\* the truncation that keeps the end of the spectrogram and of the waveform
truncate_keep_end(spec, wav, sumdur, hop) ==
  LET LastOf(x, n) == IF n < 0 \/ n >= Len(x) THEN x
                      ELSE [k \in 1..n |-> x[Len(x) - n + k]]
  IN [spec |-> LastOf(spec, sumdur), wav |-> LastOf(wav, sumdur * hop)]

\* spec = spec[:, :sumdur]; wav = wav[:, :sumdur * self.hop_length]
truncate(spec, wav, sumdur, hop) ==
  [spec |-> SliceTo(spec, sumdur), wav |-> SliceTo(wav, sumdur * hop)]

\* the zero-padded pair of the elif branch
pad(spec, wav, sumdur, hop) ==
  [spec |-> PadInto(Zeros(sumdur), spec), wav |-> PadInto(Zeros(sumdur * hop), wav)]

\* get_audio_text_pair on the inputs it: what it returns, or the error it raises
\* and the statement that raises it (get_audio's ValueError, the assertion on the
\* alignment, the slice assignment into wav_pad, the assertions on the shapes and
\* on the waveform's length)
get_audio_text_pair(it) ==
  LET sumdur == SumSeq(it.phn_dur)
      frames == Len(it.spec)
  IN IF ~it.sampling_rate_ok THEN [status |-> "ValueError", at |-> "get_audio"]
     ELSE IF ~alignment_ok(frames, sumdur)
          THEN [status |-> "AssertionError", at |-> "alignment"]
     ELSE IF frames < sumdur /\ Len(it.wav) > sumdur * it.hop_length
          THEN [status |-> "RuntimeError", at |-> "wav_pad"]
     ELSE LET out == IF frames > sumdur THEN truncate(it.spec, it.wav, sumdur, it.hop_length)
                     ELSE IF frames < sumdur THEN pad(it.spec, it.wav, sumdur, it.hop_length)
                     ELSE [spec |-> it.spec, wav |-> it.wav]
          IN IF Len(it.phonemes) # Len(it.phn_dur)
             THEN [status |-> "AssertionError", at |-> "shape"]
             ELSE IF sumdur # Len(out.wav) \div it.hop_length
             THEN [status |-> "AssertionError", at |-> "wav_length"]
             ELSE [status |-> "ok", phonemes |-> it.phonemes, spec |-> out.spec,
                   wav |-> out.wav, phn_dur |-> it.phn_dur]

\* ---------------------------------------------------------------------------
\* TextAudioLoader._filter, get_phonemes
\* ---------------------------------------------------------------------------

\* str.split(" "): a string is the sequence of its characters
Split(str) ==
  LET F[k \in 0..Len(str)] ==
        \* the tokens of the first k characters, the last one still open
        IF k = 0 THEN << <<>> >>
        ELSE IF str[k] = " " THEN Append(F[k - 1], <<>>)
        ELSE [F[k - 1] EXCEPT ![Len(F[k - 1])] = Append(@, str[k])]
  IN F[Len(str)]

\* get_phonemes: one symbol id per token of the row's phoneme string
get_phonemes(phonemes) ==
  LET tokens == Split(phonemes)
  IN [k \in 1..Len(tokens) |-> Len(tokens[k])]

\* _filter: the rows kept and the lengths stored for them
filter(rows, hp) ==
  LET F[k \in 0..Len(rows)] ==
        IF k = 0 THEN [audiopaths_sid_text |-> <<>>, lengths |-> <<>>]
        ELSE IF hp.min_text_len <= Len(rows[k].phonemes)
                /\ Len(rows[k].phonemes) <= hp.max_text_len
             THEN [audiopaths_sid_text |->
                     Append(F[k - 1].audiopaths_sid_text,
                            [wav_path |-> rows[k].id,
                             phonemes |-> rows[k].phonemes,
                             durations |-> rows[k].durations]),
                   lengths |->
                     Append(F[k - 1].lengths, rows[k].size \div (2 * hp.hop_length))]
             ELSE F[k - 1]
  IN F[Len(rows)]

\* ---------------------------------------------------------------------------
\* TextAudioCollate.__call__
\* ---------------------------------------------------------------------------

\* max(...) over a non-empty list
MaxOf(s) == CHOOSE m \in Elems(s) : \A k \in 1..Len(s) : s[k] <= m

\* the orders of 0..n-1
Orders(n) == {p \in [1..n -> 0..(n - 1)] : \A i, j \in 1..n : p[i] = p[j] => i = j}

sort_ascending(keys) ==
  {p \in Orders(Len(keys)) :
     \A i \in 1..(Len(keys) - 1) : keys[p[i] + 1] <= keys[p[i + 1] + 1]}

\* torch.sort(keys, dim=0, descending=True) without stable=True: the index
\* lists it may return; the order among equal keys is not defined
sort_descending(keys) ==
  {p \in Orders(Len(keys)) :
     \A i \in 1..(Len(keys) - 1) : keys[p[i] + 1] >= keys[p[i + 1] + 1]}

pad_row_unzeroed(x, n) == [k \in 1..n |-> IF k <= Len(x) THEN x[k] ELSE 7]

\* a row of a zeroed container after  padded[i, :x.size] = x
pad_row(x, n) == [k \in 1..n |-> IF k <= Len(x) THEN x[k] ELSE 0]

\* the nine values __call__ returns for the batch, rows taken in the order ids
collate(batch, ids) ==
  IF batch = <<>> THEN [status |-> "ValueError"]
  ELSE
    LET n == Len(batch)
        max_phonemes_len == MaxOf([k \in 1..n |-> Len(batch[k].phonemes)])
        max_spec_len == MaxOf([k \in 1..n |-> Len(batch[k].spec)])
        max_ying_len == MaxOf([k \in 1..n |-> Len(batch[k].ying)])
        max_wav_len == MaxOf([k \in 1..n |-> Len(batch[k].wav)])
        max_phndur_len == MaxOf([k \in 1..n |-> Len(batch[k].phn_dur)])
        row(i) == batch[ids[i] + 1]
    IN [status |-> "ok",
        ids_sorted_decreasing |-> ids,
        phonemes_padded |-> [i \in 1..n |-> pad_row(row(i).phonemes, max_phonemes_len)],
        phonemes_lengths |-> [i \in 1..n |-> Len(row(i).phonemes)],
        spec_padded |-> [i \in 1..n |-> pad_row(row(i).spec, max_spec_len)],
        spec_lengths |-> [i \in 1..n |-> Len(row(i).spec)],
        ying_padded |-> [i \in 1..n |-> pad_row(row(i).ying, max_ying_len)],
        ying_lengths |-> [i \in 1..n |-> Len(row(i).ying)],
        wav_padded |-> [i \in 1..n |-> pad_row(row(i).wav, max_wav_len)],
        wav_lengths |-> [i \in 1..n |-> Len(row(i).wav)],
        phndur_padded |-> [i \in 1..n |-> pad_row(row(i).phn_dur, max_phndur_len)]]

-----------------------------------------------------------------------------
(* The samplers of a process group.  Every rank constructs its sampler     *)
(* from the same arguments, and neither _create_buckets nor the fields it  *)
(* sets read self.rank: the construction state is the same on every rank   *)
(* and is kept once.  epoch, batches are per sampler.                      *)

Ranks == 0..(num_replicas - 1)

\* the state before DistributedBucketSampler(dataset, batch_size, boundaries,
\* num_replicas, rank, shuffle) is called; super().__init__ sets epoch = 0
InitSampler(LS, BS, WS, SH) ==
  /\ lengths \in LS
  /\ boundaries \in BS
  /\ boundaries_arg = boundaries
  /\ batch_size \in BatchSizes
  /\ num_replicas \in WS
  /\ shuffle \in SH
  /\ constructed = FALSE
  /\ buckets = <<>>
  /\ num_samples_per_bucket = <<>>
  /\ total_size = 0
  /\ num_samples = 0
  /\ epoch = [r \in Ranks |-> 0]
  /\ batches = [r \in Ranks |-> <<>>]
  /\ iter_epoch = [r \in Ranks |-> -1]
  /\ iter_result = [r \in Ranks |-> "none"]
  /\ seen = [r \in Ranks |-> [e \in Epochs |-> [calls |-> 0, out |-> <<>>, apart |-> FALSE]]]

\* no get_audio_text_pair call yet
InitFetch ==
  /\ item = [source |-> "none"]
  /\ pair = [status |-> "none"]

\* no batch collated
NoCollate ==
  /\ cbatch = <<>>
  /\ collated = [status |-> "none"]

\* no catalog loaded
NoCatalog ==
  /\ text_hparams = [min_text_len |-> 1, max_text_len |-> 190, hop_length |-> 1]
  /\ manifest = <<>>
  /\ catalog = [status |-> "none"]

\* neither the collator nor the catalog is part of the run
InitLoader == InitFetch /\ NoCollate /\ NoCatalog

\* the sampler is not part of the run
NoSampler ==
  /\ InitSampler({<<>>}, {<<0, 1>>}, {1}, {TRUE})

\* the spectrogram / waveform loaded for an example: n values 1..n
Ramp(n) == [k \in 1..n |-> k]

HopLengths == {1, 2}

\* what __getitem__ can load for one manifest row
Items ==
  [source : {"loaded"},
   sampling_rate_ok : BOOLEAN,
   hop_length : HopLengths,
   phonemes : {Ramp(n) : n \in 0..MaxDurations},
   phn_dur : ListsUpTo(-1..2, MaxDurations),
   spec : {Ramp(n) : n \in 0..MaxFrames},
   wav : {Ramp(n) : n \in 0..(2 * MaxFrames + 3)}]

\* __getitem__(index) -> get_audio_text_pair(row), on what was loaded for the row
GetItem ==
  /\ pair.status = "none"
  /\ \E it \in Items :
       /\ item' = it
       /\ pair' = get_audio_text_pair(it)
  /\ UNCHANGED <<sampler_vars, collate_vars, catalog_vars>>

\* get_audio_text_pair on the pair a call returned, the annotation and hop_length kept
GetItemAgain ==
  /\ pair.status = "ok"
  /\ item.source = "loaded"
  /\ item' = [item EXCEPT !.source = "returned", !.spec = pair.spec, !.wav = pair.wav]
  /\ pair' = get_audio_text_pair(item')
  /\ UNCHANGED <<sampler_vars, collate_vars, catalog_vars>>

\* __init__
\* what get_audio_text_pair returns for a row with the duration annotation d
ExampleOf(d) ==
  [phonemes |-> Ramp(Len(d)),
   spec |-> Ramp(SumSeq(d)),
   ying |-> Ramp(SumSeq(d) + 1),
   wav |-> Ramp(2 * SumSeq(d)),
   phn_dur |-> d]

Examples == {ExampleOf(d) : d \in UNION {[1..k -> 0..2] : k \in 1..2}}

\* TextAudioCollate.__call__(batch)
Collate ==
  /\ collated.status = "none"
  /\ \/ /\ cbatch = <<>>
        /\ collated' = collate(cbatch, <<>>)
     \/ \E ids \in sort_descending([k \in 1..Len(cbatch) |-> Len(cbatch[k].spec)]) :
          collated' = collate(cbatch, ids)
  /\ UNCHANGED <<cbatch, sampler_vars, loader_vars, catalog_vars>>

\* the phoneme strings of valid manifest rows: tokens separated by single spaces
PhonemeStrings ==
  {str \in UNION {[1..k -> {"a", " "}] : k \in 1..MaxChars} :
     /\ str[1] # " "
     /\ str[Len(str)] # " "
     /\ \A k \in 1..(Len(str) - 1) : ~(str[k] = " " /\ str[k + 1] = " ")}

\* the sizes in bytes of the wav files
FileSizes == {3, 8}

\* the manifests of two rows at most; a row's id is its line number
Manifests ==
  {[k \in 1..Len(m) |->
      [id |-> k,
       phonemes |-> m[k].phonemes,
       durations |-> [j \in 1..Len(Split(m[k].phonemes)) |-> 1],
       size |-> m[k].size]] :
     m \in ListsUpTo([phonemes : PhonemeStrings, size : FileSizes], 2)}

\* TextAudioLoader.__init__ up to the end of _filter
LoadCatalog ==
  /\ catalog.status = "none"
  /\ catalog' = [status |-> "ok"] @@ filter(manifest, text_hparams)
  /\ UNCHANGED <<text_hparams, manifest, sampler_vars, loader_vars, collate_vars>>

Construct ==
  /\ ~constructed
  /\ LET cb == create_buckets(lengths, boundaries, num_replicas, batch_size)
     IN /\ buckets' = cb.buckets
        /\ boundaries' = cb.boundaries
        /\ num_samples_per_bucket' = cb.num_samples_per_bucket
        /\ total_size' = SumSeq(cb.num_samples_per_bucket)
        /\ num_samples' = SumSeq(cb.num_samples_per_bucket) \div num_replicas
  /\ constructed' = TRUE
  /\ UNCHANGED <<lengths, batch_size, boundaries_arg, num_replicas, shuffle,
                 epoch, batches, iter_epoch, iter_result, seen>>
  /\ UNCHANGED <<loader_vars, collate_vars, catalog_vars>>

\* set_epoch(e) on the sampler of rank r (inherited: self.epoch = e)
SetEpoch(r, e) ==
  /\ constructed
  /\ epoch[r] # e
  /\ epoch' = [epoch EXCEPT ![r] = e]
  /\ UNCHANGED <<lengths, batch_size, boundaries, boundaries_arg, num_replicas, shuffle,
                 constructed, buckets, num_samples_per_bucket, total_size, num_samples,
                 batches, iter_epoch, iter_result, seen>>
  /\ UNCHANGED <<loader_vars, collate_vars, catalog_vars>>

\* __iter__ on the sampler of rank r: self.batches is assigned, then the assertion
\* len(self.batches) * self.batch_size == self.num_samples decides how the call ends
IterCall(r) ==
  /\ constructed
  /\ LET bs == iter_batches(r)
     IN /\ batches' = [batches EXCEPT ![r] = bs]
        /\ iter_result' = [iter_result EXCEPT
             ![r] = IF Len(bs) * batch_size = num_samples THEN "ok" ELSE "AssertionError"]
  /\ iter_epoch' = [iter_epoch EXCEPT ![r] = epoch[r]]
  /\ UNCHANGED <<lengths, batch_size, boundaries, boundaries_arg, num_replicas, shuffle,
                 constructed, buckets, num_samples_per_bucket, total_size, num_samples,
                 epoch>>
  /\ UNCHANGED <<loader_vars, collate_vars, catalog_vars>>

Iter(r) == IterCall(r) /\ UNCHANGED seen

\* __iter__ on the one sampler that is observed: the history keeps, per epoch, the
\* first batch list returned, the number of calls (up to 2) and whether a call at
\* another epoch came between two calls at this one
OnlyActive(r) == \A q \in Ranks \ {r} : epoch[q] = 0 /\ iter_epoch[q] = -1

IterObserved(r) ==
  /\ OnlyActive(r)
  /\ IterCall(r)
  /\ seen' = [seen EXCEPT ![r][epoch[r]] =
       IF @.calls = 0
       THEN [calls |-> 1, out |-> batches'[r], apart |-> FALSE]
       ELSE [calls |-> 2, out |-> @.out,
             apart |-> @.apart \/ iter_epoch[r] # epoch[r]]]

SetEpochObserved(r, e) == OnlyActive(r) /\ SetEpoch(r, e)

-----------------------------------------------------------------------------
(* Specifications *)

\* the process group through its epochs
Init ==
  /\ InitSampler(ListsUpTo({0, 1, 2}, MaxExamples), {<<0, 1, 2>>, <<0, 1>>},
                 WorldSizes, BOOLEAN)
  /\ InitLoader

Next ==
  \/ Construct
  \/ \E r \in Ranks, e \in Epochs : SetEpoch(r, e)
  \/ \E r \in Ranks : Iter(r)

Spec == Init /\ [][Next]_vars

\* one sampler, called again and again
NextRepeat ==
  \/ Construct
  \/ \E r \in Ranks, e \in Epochs : SetEpochObserved(r, e)
  \/ \E r \in Ranks : IterObserved(r)

SpecRepeat == Init /\ [][NextRepeat]_vars

\* construction alone, over every catalog and boundaries list of the bounds
InitBuild ==
  /\ InitSampler(ListsUpTo(0..(MaxLength + 1), MaxBuildExamples), AscendingLists(MaxLength),
                 WorldSizes, {TRUE})
  /\ InitLoader

NextBuild == Construct

SpecBuild == InitBuild /\ [][NextBuild]_vars

\* the loader: one example fetched, and reconciled again
InitLoad == NoSampler /\ InitLoader

NextLoad == GetItem \/ GetItemAgain

SpecLoad == InitLoad /\ [][NextLoad]_vars

\* the collator alone, on every batch of up to MaxCollate examples
InitCollate ==
  /\ NoSampler
  /\ InitFetch
  /\ NoCatalog
  /\ cbatch \in ListsUpTo(Examples, MaxCollate)
  /\ collated = [status |-> "none"]

NextCollate == Collate

SpecCollate == InitCollate /\ [][NextCollate]_vars

\* the catalog alone, on every manifest and setting
InitCatalog ==
  /\ NoSampler
  /\ InitFetch
  /\ NoCollate
  /\ text_hparams \in [min_text_len : {1, 2}, max_text_len : {2, 3}, hop_length : HopLengths]
  /\ manifest \in Manifests
  /\ catalog = [status |-> "none"]

NextCatalog == LoadCatalog

SpecCatalog == InitCatalog /\ [][NextCatalog]_vars

-----------------------------------------------------------------------------
(* What the statements below speak of *)

\* the example indices of the catalog
ExampleIds == 0..(Len(lengths) - 1)

\* the length of example x
LengthOf(x) == lengths[x + 1]

\* the examples whose length lies outside the boundaries the caller gave
OutOfRange ==
  {x \in ExampleIds : \/ LengthOf(x) <= boundaries_arg[1]
                      \/ LengthOf(x) > boundaries_arg[Len(boundaries_arg)]}

BucketIds == 1..Len(buckets)

\* the places (bucket, position) at which example x is held
PlacesOf(x) ==
  UNION {{<<k, q>> : q \in {p \in 1..Len(buckets[k]) : buckets[k][p] = x}} : k \in BucketIds}

\* every rank's last __iter__ ran at epoch e
AllIterated(e) == \A r \in Ranks : iter_epoch[r] = e

\* the example indices rank r's batch list holds, in order
Yielded(r) == Flatten(batches[r])

\* those of them that are examples of bucket i
YieldedFrom(r, i) ==
  LET InBucket(x) == x \in Elems(buckets[i])
  IN SelectSeq(Yielded(r), InBucket)

\* the batches of rank r drawn from bucket i
BatchesFrom(r, i) == {k \in 1..Len(batches[r]) : Elems(batches[r][k]) \subseteq Elems(buckets[i])}

\* the bag of what ranks 0..n-1 yielded from bucket i
RECURSIVE YieldedBag(_, _)
YieldedBag(i, n) ==
  IF n = 0 THEN EmptyBag ELSE YieldedBag(i, n - 1) (+) BagOf(YieldedFrom(n - 1, i))

\* the bucket-local index list of bucket i at epoch e, before any rank subsamples it
LocalIds(i, e) == bucket_indices(buckets, shuffle, manual_seed(e)).indices[i]

\* the padded (cyclically repeated) list of bucket i at epoch e, as example indices
PaddedList(i, e) ==
  LET n == Len(buckets[i])
      ids == LocalIds(i, e)
      rem == num_samples_per_bucket[i] - n
  IN [k \in 1..(n + rem) |-> buckets[i][ids[((k - 1) % n) + 1] + 1]]

-----------------------------------------------------------------------------
(* C1: at every epoch and for every surviving bucket, what the ranks       *)
(* 0..world_size-1 yield from the bucket is, taken together, exactly the   *)
(* bucket's padded (cyclically repeated) index list: every entry of the    *)
(* padded list is yielded by one rank and by no other.                     *)
C1_RanksPartitionPaddedList ==
  constructed =>
    \A e \in Epochs : AllIterated(e) =>
      \A i \in BucketIds :
        /\ YieldedBag(i, num_replicas) = BagOf(PaddedList(i, e))
        /\ SumSeq([q \in 1..num_replicas |-> Len(YieldedFrom(q - 1, i))])
             = num_samples_per_bucket[i]

C1_Witness ==
  /\ constructed /\ shuffle /\ num_replicas = 3 /\ AllIterated(1)
  /\ Len(buckets) = 2
  /\ \E i \in BucketIds : Len(buckets[i]) = 2 /\ num_samples_per_bucket[i] > 2

(* C2: two __iter__ calls of one sampler at the same epoch return the same *)
(* batch list, whatever was set and iterated between them.                 *)
C2_IterDependsOnEpochOnly ==
  \A r \in Ranks : \A e \in Epochs :
    (iter_epoch[r] = e /\ seen[r][e].calls >= 1) => batches[r] = seen[r][e].out

C2_Witness ==
  \E r \in Ranks : \E e \in Epochs : \E f \in Epochs :
    /\ iter_epoch[r] = e
    /\ seen[r][e].calls = 2
    /\ seen[r][e].apart
    /\ seen[r][f].calls >= 1
    /\ seen[r][f].out # seen[r][e].out

(* C3: after construction every example is in at most one bucket; an       *)
(* example of bucket k has boundaries[k] < length <= boundaries[k+1], for  *)
(* the boundaries as the sampler keeps them and, all examples of a bucket  *)
(* alike, for one interval of the boundaries the caller gave; and an       *)
(* example is in no bucket exactly when its length is <= boundaries[0] or  *)
(* > boundaries[-1].                                                       *)
C3_BucketAssignment ==
  constructed =>
    /\ \A x \in ExampleIds : Cardinality(PlacesOf(x)) <= 1
    /\ \A k \in BucketIds :
         /\ \A q \in 1..Len(buckets[k]) :
              /\ buckets[k][q] \in ExampleIds
              /\ boundaries[k] < LengthOf(buckets[k][q])
              /\ LengthOf(buckets[k][q]) <= boundaries[k + 1]
         /\ \E j \in 1..(Len(boundaries_arg) - 1) :
              \A q \in 1..Len(buckets[k]) :
                /\ boundaries_arg[j] < LengthOf(buckets[k][q])
                /\ LengthOf(buckets[k][q]) <= boundaries_arg[j + 1]
    /\ \A x \in ExampleIds :
         /\ PlacesOf(x) = {} <=> x \in OutOfRange
         /\ PlacesOf(x) = {} <=> \/ LengthOf(x) <= boundaries[1]
                                 \/ LengthOf(x) > boundaries[Len(boundaries)]

C3_Witness ==
  /\ constructed
  /\ Len(boundaries_arg) >= 4
  /\ \E x \in ExampleIds : \E k \in BucketIds :
       /\ PlacesOf(x) # {}
       /\ x \in Elems(buckets[k])
       /\ LengthOf(x) = boundaries[k + 1]
  /\ \E x \in ExampleIds : PlacesOf(x) = {} /\ LengthOf(x) = boundaries_arg[1]

(* C4: the padded size of every surviving bucket is the smallest multiple  *)
(* of T = world_size * batch_size that is >= the bucket's size.            *)
C4_PaddedIsSmallestMultiple ==
  constructed =>
    \A i \in BucketIds :
      LET T == num_replicas * batch_size
          n == Len(buckets[i])
          padded == num_samples_per_bucket[i]
      IN /\ padded % T = 0
         /\ padded >= n
         /\ padded - n < T

C4_Witness ==
  /\ constructed
  /\ \E i \in BucketIds :
       /\ Len(buckets[i]) > num_replicas * batch_size
       /\ Len(buckets[i]) % (num_replicas * batch_size) # 0
       /\ num_samples_per_bucket[i] = 2 * num_replicas * batch_size

(* C5: every rank's batch list holds, of every surviving bucket, the same  *)
(* number of batches, padded / (world_size * batch_size), which is at      *)
(* least 1; and the batches take up all of the rank's share of the bucket. *)
C5_EqualShareOfBatches ==
  constructed =>
    \A r \in Ranks : iter_result[r] # "none" =>
      \A i \in BucketIds :
        LET count == Cardinality(BatchesFrom(r, i))
            share == subsample(extend_ids(LocalIds(i, iter_epoch[r]), Len(buckets[i]),
                                          num_samples_per_bucket[i]), r, num_replicas)
        IN /\ count = num_samples_per_bucket[i] \div (num_replicas * batch_size)
           /\ count >= 1
           /\ count * batch_size = Len(share)

C5_Witness ==
  /\ constructed /\ num_replicas >= 2 /\ batch_size = 2
  /\ \A r \in Ranks : iter_result[r] # "none"
  /\ Len(buckets) = 2
  /\ \E i \in BucketIds : \E j \in BucketIds :
       /\ Len(buckets[i]) = 2 /\ Len(buckets[j]) = 1
       /\ Cardinality(BatchesFrom(0, i)) = Cardinality(BatchesFrom(1, j))

(* C6: __iter__ never ends in its assertion, and the number of batches it  *)
(* yields is __len__().                                                    *)
C6_IterNeverFails ==
  \A r \in Ranks :
    /\ iter_result[r] # "AssertionError"
    /\ iter_result[r] = "ok" =>
         /\ Len(batches[r]) * batch_size = num_samples
         /\ Len(batches[r]) = sampler_len

C6_Witness ==
  \E r \in Ranks :
    /\ r > 0
    /\ iter_result[r] = "ok"
    /\ ~shuffle
    /\ Len(batches[r]) >= 2
    /\ \E q \in Ranks : iter_result[q] = "ok" /\ iter_epoch[q] # iter_epoch[r]

(* C7: construction fails when every bucket is empty after pruning, and no *)
(* sampler is produced then.                                               *)
C7_EmptyDatasetFails ==
  (\A x \in ExampleIds : x \in OutOfRange) => ~constructed

(* C8: every batch __iter__ yields holds exactly batch_size example        *)
(* indices, all of one and the same bucket.                                *)
C8_BatchesAreWholeAndOfOneBucket ==
  \A r \in Ranks : \A k \in 1..Len(batches[r]) :
    /\ Len(batches[r][k]) = batch_size
    /\ \E i \in BucketIds : Elems(batches[r][k]) \subseteq Elems(buckets[i])

C8_Witness ==
  \E r \in Ranks :
    /\ batch_size = 2 /\ shuffle /\ Len(buckets) = 2
    /\ Len(batches[r]) >= 2
    /\ \E k \in 1..Len(batches[r]) : batches[r][k][1] # batches[r][k][2]

(* C9: at every epoch, every example that was put in a bucket is yielded   *)
(* by at least one of the ranks 0..world_size-1, and an example discarded  *)
(* at construction is yielded by none.                                     *)
C9_EveryKeptExampleIsYielded ==
  constructed =>
    /\ \A e \in Epochs : AllIterated(e) =>
         \A x \in ExampleIds : PlacesOf(x) # {} =>
           \E r \in Ranks : x \in Elems(Yielded(r))
    /\ \A r \in Ranks : \A x \in Elems(Yielded(r)) :
         x \in ExampleIds /\ PlacesOf(x) # {} /\ x \notin OutOfRange

C9_Witness ==
  /\ constructed /\ shuffle /\ num_replicas >= 2
  /\ \E e \in Epochs : AllIterated(e)
  /\ OutOfRange # {}
  /\ \E i \in BucketIds : Len(buckets[i]) = 2 /\ num_samples_per_bucket[i] = 2
  /\ \E x \in ExampleIds : PlacesOf(x) # {} /\ x \notin Elems(Yielded(0))

(* C10: whenever get_audio_text_pair returns, the spectrogram it returns   *)
(* has exactly sum(duration annotation) frames.                            *)
C10_FramesEqualSumOfDurations ==
  pair.status = "ok" => Len(pair.spec) = SumSeq(pair.phn_dur)

C10_Witness ==
  /\ pair.status = "ok"
  /\ item.source = "loaded"
  /\ Len(item.spec) > Len(pair.spec)
  /\ Len(pair.spec) >= 2

\* the sum of the duration annotation of the last call, and the frames it loaded
ItemSumdur == SumSeq(item.phn_dur)
ItemFrames == Len(item.spec)

\* the last call got as far as the reconciliation (get_audio did not raise)
Reconciling == item.source # "none" /\ item.sampling_rate_ok

(* C11: reconciliation fails on its alignment assertion, and returns no    *)
(* pair, whenever abs(frame_count - sum(duration_annotation)) >= 2, and    *)
(* does not fail on that assertion when the difference is 0 or 1.          *)
C11_AlignmentErrorIffTwoOrMore ==
  Reconciling =>
    /\ Abs(ItemFrames - ItemSumdur) >= 2 =>
         pair = [status |-> "AssertionError", at |-> "alignment"]
    /\ Abs(ItemFrames - ItemSumdur) \in {0, 1} =>
         ~(pair.status = "AssertionError" /\ pair.at = "alignment")

C11_Witness ==
  /\ Reconciling
  /\ ItemFrames - ItemSumdur = 2
  /\ Len(item.phonemes) = Len(item.phn_dur)
  /\ Len(item.wav) = ItemFrames * item.hop_length
  /\ pair.status = "AssertionError"

(* C12 as stated: in every call whose alignment assertion passes, a        *)
(* spectrogram longer than sum(duration_annotation) is cut, with the       *)
(* waveform, to sumdur frames and sumdur * hop_length samples, and a       *)
(* shorter one is zero-padded, with the waveform, to those lengths (the    *)
(* durations of the annotation being non-negative).                        *)
C12_EveryPassingCallReconciles ==
  (/\ Reconciling
   /\ alignment_ok(ItemFrames, ItemSumdur)
   /\ \A k \in 1..Len(item.phn_dur) : item.phn_dur[k] >= 0) =>
    /\ ItemFrames > ItemSumdur =>
         LET out == truncate(item.spec, item.wav, ItemSumdur, item.hop_length)
         IN /\ Len(out.spec) = ItemSumdur
            /\ Len(out.wav) = ItemSumdur * item.hop_length
    /\ ItemFrames < ItemSumdur => pair.status # "RuntimeError"

(* C12 as it holds: in every call that returns, a spectrogram longer than  *)
(* sum(duration_annotation) comes back as its first sumdur frames and the  *)
(* waveform as its first sumdur * hop_length samples, of exactly those     *)
(* lengths; a shorter one comes back, with the waveform, followed by zeros *)
(* up to those lengths; and one of sumdur frames comes back as loaded.  A  *)
(* call that passes the alignment assertion with a waveform too short to   *)
(* cut, or too long to pad, raises instead.                                *)
C12_ReturnedPairIsCutOrPadded ==
  (Reconciling /\ alignment_ok(ItemFrames, ItemSumdur)) =>
    LET target == ItemSumdur * item.hop_length
    IN /\ pair.status = "ok" =>
            /\ Len(pair.spec) = ItemSumdur
            /\ ItemFrames > ItemSumdur =>
                 /\ Len(pair.wav) = target
                 /\ \A k \in 1..ItemSumdur : pair.spec[k] = item.spec[k]
                 /\ \A k \in 1..target : pair.wav[k] = item.wav[k]
            /\ ItemFrames < ItemSumdur =>
                 /\ Len(pair.wav) = target
                 /\ \A k \in 1..ItemSumdur :
                      pair.spec[k] = IF k <= ItemFrames THEN item.spec[k] ELSE 0
                 /\ \A k \in 1..target :
                      pair.wav[k] = IF k <= Len(item.wav) THEN item.wav[k] ELSE 0
            /\ ItemFrames = ItemSumdur => pair.spec = item.spec /\ pair.wav = item.wav
       /\ (ItemFrames > ItemSumdur /\ Len(item.wav) < target) => pair.status = "AssertionError"
       /\ (ItemFrames < ItemSumdur /\ Len(item.wav) > target) => pair.status = "RuntimeError"

C12_Witness ==
  /\ item.source = "loaded"
  /\ pair.status = "ok"
  /\ ItemFrames > ItemSumdur
  /\ ItemSumdur >= 2
  /\ Len(item.wav) > Len(pair.wav)
  /\ item.hop_length = 2

(* C13: get_audio_text_pair applied to the spectrogram and waveform it     *)
(* returned, with the same annotation and hop_length, returns, and returns *)
(* the same spectrogram and waveform.                                      *)
C13_ReconcileIsIdempotent ==
  item.source = "returned" =>
    /\ pair.status = "ok"
    /\ pair.spec = item.spec
    /\ pair.wav = item.wav

C13_Witness ==
  /\ item.source = "returned"
  /\ pair.status = "ok"
  /\ Len(item.spec) >= 2
  /\ 0 \in Elems(item.wav)
  /\ 0 \in Elems(item.spec)


\* ---------------------------------------------------------------------------
\* TextAudioCollate
\* ---------------------------------------------------------------------------

Collated == collated.status = "ok"
Rows == 1..Len(cbatch)
\* the example the collator put in output row i
Source(i) == cbatch[collated.ids_sorted_decreasing[i] + 1]

PaddedTo(out, x, n) ==
  /\ Len(out) = n
  /\ n >= Len(x)
  /\ \A k \in 1..n : out[k] = IF k <= Len(x) THEN x[k] ELSE 0

Widest(f(_)) == MaxOf([k \in Rows |-> Len(f(cbatch[k]))])

PhonemesOf(x) == x.phonemes
SpecOf(x) == x.spec
YingOf(x) == x.ying
WavOf(x) == x.wav
PhnDurOf(x) == x.phn_dur

\* the five containers hold each example's data followed only by zeros, at the batch maximum
ContainersPadded ==
  \A i \in Rows :
    /\ PaddedTo(collated.phonemes_padded[i], Source(i).phonemes, Widest(PhonemesOf))
    /\ PaddedTo(collated.spec_padded[i], Source(i).spec, Widest(SpecOf))
    /\ PaddedTo(collated.ying_padded[i], Source(i).ying, Widest(YingOf))
    /\ PaddedTo(collated.wav_padded[i], Source(i).wav, Widest(WavOf))
    /\ PaddedTo(collated.phndur_padded[i], Source(i).phn_dur, Widest(PhnDurOf))

\* the four length vectors hold each example's true length
LengthsTrue ==
  \A i \in Rows :
    /\ collated.phonemes_lengths[i] = Len(Source(i).phonemes)
    /\ collated.spec_lengths[i] = Len(Source(i).spec)
    /\ collated.ying_lengths[i] = Len(Source(i).ying)
    /\ collated.wav_lengths[i] = Len(Source(i).wav)

Retained == 1..Len(catalog.audiopaths_sid_text)

\* C16 as stated: every retained example has between min_text_len and
\* max_text_len text units (tokens), and lengths[k] is the length stored for
\* the k-th retained example.
C16_RetainedWithinTokenBounds ==
  catalog.status = "ok" =>
    /\ Len(catalog.lengths) = Len(catalog.audiopaths_sid_text)
    /\ \A k \in Retained :
         LET row == catalog.audiopaths_sid_text[k]
             text_units == get_phonemes(row.phonemes)
         IN /\ text_hparams.min_text_len <= Len(text_units)
            /\ Len(text_units) <= text_hparams.max_text_len
            /\ catalog.lengths[k] =
                 manifest[row.wav_path].size \div (2 * text_hparams.hop_length)


\* ---------------------------------------------------------------------------
\* Pruning of empty buckets
\* ---------------------------------------------------------------------------

\* the interval of the caller's boundaries the examples of bucket k fall in
IntervalOf(k) ==
  CHOOSE j \in 1..(Len(boundaries_arg) - 1) :
    \A q \in 1..Len(buckets[k]) :
      /\ boundaries_arg[j] < LengthOf(buckets[k][q])
      /\ LengthOf(buckets[k][q]) <= boundaries_arg[j + 1]

\* C17: after construction no bucket is empty, the surviving buckets are in
\* the order of their intervals, the boundaries list has len(buckets) + 1
\* entries and is strictly ascending, and _bisect on the pruned boundaries
\* maps the length of every kept example to the index of its bucket.
C17_PrunedBucketsAndBoundaries ==
  constructed =>
    /\ \A k \in BucketIds : buckets[k] # <<>>
    /\ \A k, l \in BucketIds : k < l => IntervalOf(k) < IntervalOf(l)
    /\ \A x \in ExampleIds : x \notin OutOfRange => PlacesOf(x) # {}
    /\ Len(boundaries) = Len(buckets) + 1
    /\ \A k \in 1..(Len(boundaries) - 1) : boundaries[k] < boundaries[k + 1]
    /\ \A k \in BucketIds :
         \A q \in 1..Len(buckets[k]) :
           bisect_default(boundaries, LengthOf(buckets[k][q])) = k - 1

\* a construction that dropped a bucket between two surviving ones
C17_Witness ==
  /\ constructed
  /\ Len(buckets) = 2
  /\ Len(boundaries_arg) = 4
  /\ boundaries = <<boundaries_arg[1], boundaries_arg[2], boundaries_arg[4]>>

\* C18: when every rank has iterated at the same epoch, all ranks yield the
\* same number of batches and, at every position p, the p-th batches of all
\* ranks are drawn from one and the same bucket.
C18_SamePositionSameBucket ==
  \A e \in Epochs :
    AllIterated(e) =>
      /\ \A r \in Ranks : Len(batches[r]) = Len(batches[0])
      /\ \A p \in 1..Len(batches[0]) :
           \E i \in BucketIds :
             \A r \in Ranks : Elems(batches[r][p]) \subseteq Elems(buckets[i])

\* several ranks have iterated a shuffled epoch whose batch order is not the bucket order
C18_Witness ==
  /\ constructed /\ shuffle /\ num_replicas >= 2
  /\ Len(buckets) = 2
  /\ \E e \in Epochs : AllIterated(e)
  /\ Len(batches[1]) >= 2
  /\ Elems(batches[1][1]) \subseteq Elems(buckets[2])
  /\ batches[0] # batches[1]

\* C19 as stated: construction leaves the caller's boundaries list as it
\* was given, so that a second sampler built from the same list object
\* buckets against the same intervals.
C19_BoundariesArgumentUnchanged ==
  constructed => boundaries = boundaries_arg

=============================================================================
